---- MODULE Spec2Model ----
(***************************************************************************)
(* Model of bswebpilot: the BSLocator value object (utils/locator.py) and  *)
(* the two session wrappers built on it, BSCmfx (bsplaywright/bscmfx.py)   *)
(* and BSWebDriver (bsselenium/webdriver.py).                              *)
(*                                                                         *)
(* Python strings are modelled as sequences of one-character strings, so   *)
(* that split / strip / join / f-string formatting are computed.           *)
(***************************************************************************)
EXTENDS Integers, Sequences, FiniteSets, TLC

VARIABLES
    \* ---- BSLocator derivations (SpecLocator) ----
    self_loc,   \* the receiver `self` of get_descendant / get_nth_element
    other,      \* the argument `other` of the last get_descendant call
    idx,        \* the argument `i` of the last get_nth_element call
                \* (each call leaves only its own argument recorded)
    lop,        \* the last derivation applied: "none", "get_descendant", "get_nth_element"
    lres,       \* its outcome: a returned BSLocator or a raised Exception
    \* ---- the session wrappers (Spec) ----
    dom,        \* the page: for each element the call's locator matches, whether it
                \* is attached to the document and whether it is displayed
    call,       \* the wrapper method in progress (or last completed) and its arguments
    pc,         \* the engine call the method is blocked in: "idle", an engine call, "done"
    clock,      \* polls of the current engine wait that found its condition false
    handle,     \* the WebElement held between find_element and the read of its property
    timedOut,   \* the engine wait of this call ran into its timeout
    clicked,    \* the element the call clicked (0: none)
    attachedSeen, \* a matching element was attached at some moment of the call
    ret,        \* what reached the caller: a returned value or a raised exception
    events,     \* the engine interactions the call has dispatched so far, in order
    field,      \* the value held by the input element
    params,     \* further arguments of the call: content, retry
    \* ---- the BSCmfx session lifecycle (SpecSession, SpecSessionTasks) ----
    camoufox_instance, \* self._camoufox_instance: 0 (None) or an engine session
    browser,    \* self.browser: 0 (None) or the engine session it belongs to
    page,       \* self.page: 0 (None) or the engine session it belongs to
    engines,    \* every AsyncCamoufox constructed so far: its state, and how many
                \* times its release (__aexit__) was invoked
    task        \* the asyncio tasks running initialize() / quit() on the wrapper

lvars == <<self_loc, other, idx, lop, lres>>

wvars == <<dom, call, pc, clock, handle, timedOut, clicked, attachedSeen, ret>>

ivars == <<events, field, params>>

svars == <<camoufox_instance, browser, page, engines, task>>

vars == <<self_loc, other, idx, lop, lres,
         dom, call, pc, clock, handle, timedOut, clicked, attachedSeen, ret,
         events, field, params,
         camoufox_instance, browser, page, engines, task>>

(***************************************************************************)
(* Bounds of the model.                                                    *)
(***************************************************************************)
MaxLen == 4        \* longest value of the receiver locator, in characters
MaxIndex == 10     \* largest index given to get_nth_element
MaxElems == 2      \* elements of the page that the locator of a call can match
MaxPolls == 1      \* polls an engine wait makes after the first before it times out
MaxEngines == 2    \* engine sessions one wrapper constructs over its life
MaxTasks == 2      \* asyncio tasks that run initialize() / quit() on one wrapper
MaxExits == 2      \* releases invoked on one engine session

(***************************************************************************)
(* selenium.webdriver.common.by.By, as imported by locator.py line 1.      *)
(***************************************************************************)
By_ID == "id"
By_XPATH == "xpath"
By_LINK_TEXT == "link text"
By_PARTIAL_LINK_TEXT == "partial link text"
By_NAME == "name"
By_TAG_NAME == "tag name"
By_CLASS_NAME == "class name"
By_CSS_SELECTOR == "css selector"

Strategies == {By_ID, By_NAME, By_CLASS_NAME, By_TAG_NAME, By_CSS_SELECTOR,
               By_XPATH, By_LINK_TEXT, By_PARTIAL_LINK_TEXT}

(***************************************************************************)
(* Python string primitives used by locator.py.                            *)
(***************************************************************************)
Whitespace == {" "}

\* str.split(sep) for a one-character separator: always at least one piece.
RECURSIVE split(_, _)
split(s, sep) ==
    IF \E k \in 1..Len(s) : s[k] = sep
    THEN LET k == CHOOSE j \in 1..Len(s) :
                      s[j] = sep /\ \A m \in 1..(j - 1) : s[m] # sep
         IN <<SubSeq(s, 1, k - 1)>> \o split(SubSeq(s, k + 1, Len(s)), sep)
    ELSE <<s>>

\* str.strip(): drop leading and trailing whitespace.
RECURSIVE lstrip(_)
lstrip(s) == IF s # <<>> /\ Head(s) \in Whitespace THEN lstrip(Tail(s)) ELSE s

RECURSIVE rstrip(_)
rstrip(s) ==
    IF s # <<>> /\ s[Len(s)] \in Whitespace
    THEN rstrip(SubSeq(s, 1, Len(s) - 1))
    ELSE s

strip(s) == rstrip(lstrip(s))

\* sep.join(parts)
RECURSIVE join(_, _)
join(sep, parts) ==
    IF parts = <<>> THEN <<>>
    ELSE IF Len(parts) = 1 THEN parts[1]
    ELSE parts[1] \o sep \o join(sep, Tail(parts))

\* f"{i}" for an int: decimal digits, with a leading minus sign when negative.
Digit(d) == <<"0", "1", "2", "3", "4", "5", "6", "7", "8", "9">>[d + 1]

RECURSIVE NatStr(_)
NatStr(n) == IF n < 10 THEN <<Digit(n)>> ELSE NatStr(n \div 10) \o <<Digit(n % 10)>>

IntStr(i) == IF i < 0 THEN <<"-">> \o NatStr(0 - i) ELSE NatStr(i)

\* The literal ":nth-child(" of locator.py line 34.
NthChildOpen == <<":", "n", "t", "h", "-", "c", "h", "i", "l", "d", "(">>

(***************************************************************************)
(* BSLocator: constructor and the eight factories.                         *)
(***************************************************************************)
BSLocator(by, value) == [by |-> by, value |-> value]

BSLocator_id(v) == BSLocator(By_ID, v)
BSLocator_name(v) == BSLocator(By_NAME, v)
BSLocator_class_name(v) == BSLocator(By_CLASS_NAME, v)
BSLocator_tag_name(v) == BSLocator(By_TAG_NAME, v)
BSLocator_css(v) == BSLocator(By_CSS_SELECTOR, v)
BSLocator_xpath(v) == BSLocator(By_XPATH, v)
BSLocator_link_text(v) == BSLocator(By_LINK_TEXT, v)
BSLocator_partial_link_text(v) == BSLocator(By_PARTIAL_LINK_TEXT, v)

\* The outcome of a derivation: the BSLocator returned, or the Exception raised.
LReturn(l) == [kind |-> "return", by |-> l.by, value |-> l.value]
LRaise == [kind |-> "raise", by |-> "", value |-> <<>>]
LNone == [kind |-> "none", by |-> "", value |-> <<>>]

\* [f(x) for x in xs if p(x)] as used by both derivations: the stripped,
\* non-empty pieces of a comma-separated value.
RECURSIVE StrippedNonEmpty(_)
StrippedNonEmpty(parts) ==
    IF parts = <<>> THEN <<>>
    ELSE LET ss == strip(Head(parts))
         IN (IF ss # <<>> THEN <<ss>> ELSE <<>>) \o StrippedNonEmpty(Tail(parts))

\* A mutant of get_descendant: the parent's pieces are not stripped and the
\* rewritten pieces are joined by "," only.
get_descendant_nostrip(self, o) ==
    IF self.by = By_XPATH
    THEN LReturn(BSLocator_xpath(self.value \o o.value))
    ELSE IF self.by = By_CSS_SELECTOR
    THEN LET subselectors == SelectSeq(split(self.value, ","), LAMBDA ss : ss # <<>>)
         IN LReturn(BSLocator_css(join(<<",">>,
                [k \in 1..Len(subselectors) |-> subselectors[k] \o <<" ">> \o o.value])))
    ELSE LRaise

\* A mutant of get_descendant: every strategy other than xpath is treated as css.
get_descendant_anycss(self, o) ==
    IF self.by = By_XPATH
    THEN LReturn(BSLocator_xpath(self.value \o o.value))
    ELSE LET subselectors == StrippedNonEmpty(split(self.value, ","))
         IN LReturn(BSLocator_css(join(<<",", " ">>,
                [k \in 1..Len(subselectors) |-> subselectors[k] \o <<" ">> \o o.value])))

get_descendant(self, o) ==
    IF self.by = By_XPATH
    THEN LReturn(BSLocator_xpath(self.value \o o.value))
    ELSE IF self.by = By_CSS_SELECTOR
    THEN LET subselectors == StrippedNonEmpty(split(self.value, ","))
         IN LReturn(BSLocator_css(join(<<",", " ">>,
                [k \in 1..Len(subselectors) |-> subselectors[k] \o <<" ">> \o o.value])))
    ELSE LRaise

\* A mutant of get_nth_element: the commented-out line 39 of locator.py, which
\* appends :nth-child(i) once to the whole value.
get_nth_element_whole(self, i) ==
    IF self.by = By_XPATH
    THEN LReturn(BSLocator_xpath(<<"(">> \o self.value \o <<")", "[">> \o IntStr(i) \o <<"]">>))
    ELSE IF self.by = By_CSS_SELECTOR
    THEN LReturn(BSLocator_css(self.value \o NthChildOpen \o IntStr(i) \o <<")">>))
    ELSE LRaise

get_nth_element(self, i) ==
    IF self.by = By_XPATH
    THEN LReturn(BSLocator_xpath(<<"(">> \o self.value \o <<")", "[">> \o IntStr(i) \o <<"]">>))
    ELSE IF self.by = By_CSS_SELECTOR
    THEN LET subselectors == StrippedNonEmpty(split(self.value, ","))
         IN LReturn(BSLocator_css(join(<<",", " ">>,
                [k \in 1..Len(subselectors) |->
                    subselectors[k] \o NthChildOpen \o IntStr(i) \o <<")">>])))
    ELSE LRaise

(***************************************************************************)
(* Inputs of the derivations.                                              *)
(***************************************************************************)
Alphabet == {"a", "b", ",", " "}

RECURSIVE StringsUpTo(_)
StringsUpTo(n) ==
    IF n = 0 THEN {<<>>}
    ELSE LET shorter == StringsUpTo(n - 1)
         IN shorter \cup {s \o <<c>> : s \in {t \in shorter : Len(t) = n - 1}, c \in Alphabet}

\* The xpath "//div" of the documented example, next to the bounded strings.
ExampleValues == {<<"/", "/", "d", "i", "v">>}

Values == StringsUpTo(MaxLen) \cup ExampleValues

OtherValues == {<<"c">>, <<"c", ",", "d">>}

Factory(by, v) ==
    CASE by = By_ID -> BSLocator_id(v)
      [] by = By_NAME -> BSLocator_name(v)
      [] by = By_CLASS_NAME -> BSLocator_class_name(v)
      [] by = By_TAG_NAME -> BSLocator_tag_name(v)
      [] by = By_CSS_SELECTOR -> BSLocator_css(v)
      [] by = By_XPATH -> BSLocator_xpath(v)
      [] by = By_LINK_TEXT -> BSLocator_link_text(v)
      [] by = By_PARTIAL_LINK_TEXT -> BSLocator_partial_link_text(v)

Locators == {Factory(by, v) : by \in Strategies, v \in Values}
OtherLocators == {Factory(by, v) : by \in Strategies, v \in OtherValues}
Indices == (0 - 1)..MaxIndex

(***************************************************************************)
(* The page seen through the locator of a call, and the engines' queries.  *)
(* Both engines (Playwright under BSCmfx, Selenium under BSWebDriver) are  *)
(* external: a wait polls its condition until it holds or the timeout      *)
(* elapses, and the page changes on its own between any two engine calls.  *)
(***************************************************************************)
Elems == 1..MaxElems

\* The text of the e-th matching element of the page.
ElemText(e) == IF e % 2 = 1 THEN <<"a", "b">> ELSE <<"a">>

Detached == [attached |-> FALSE, displayed |-> FALSE]
Hidden == [attached |-> TRUE, displayed |-> FALSE]
Shown == [attached |-> TRUE, displayed |-> TRUE]

Attached(d) == {e \in Elems : d[e].attached}

\* The first element of a set of matches in document order (0: no match).
First(S) == IF S = {} THEN 0 ELSE CHOOSE e \in S : \A f \in S : e <= f

\* The elements of S in document order.
RECURSIVE InOrder(_)
InOrder(S) == IF S = {} THEN <<>> ELSE <<First(S)>> \o InOrder(S \ {First(S)})

\* selenium expected_conditions, over driver.find_element (the first match).
presence_of_element_located(d) == Attached(d) # {}
visibility_of_element_located(d) == Attached(d) # {} /\ d[First(Attached(d))].displayed
element_to_be_clickable(d) == visibility_of_element_located(d)
invisibility_of_element_located(d) == ~visibility_of_element_located(d)

\* Locator.filter(has_text=pt): pt occurs in the element's text.
has_text(text, pt) ==
    \E k \in 0..(Len(text) - Len(pt)) : SubSeq(text, k + 1, k + Len(pt)) = pt

\* The matches left by the filter chains of click_element_by_partial_texts
\* (partial_non_containing_texts None is the empty list).
Filtered(d, containing, non_containing) ==
    {e \in Attached(d) :
        /\ \A k \in 1..Len(containing) : has_text(ElemText(e), containing[k])
        /\ \A k \in 1..Len(non_containing) : ~has_text(ElemText(e), non_containing[k])}

\* What reaches the caller.
NoRet == [kind |-> "none", exc |-> "", t |-> "", b |-> FALSE, n |-> 0, s |-> <<>>, l |-> <<>>]
Raise(e) == [NoRet EXCEPT !.kind = "raise", !.exc = e]
ReturnNone == [NoRet EXCEPT !.kind = "return", !.t = "None"]
ReturnBool(b) == [NoRet EXCEPT !.kind = "return", !.t = "bool", !.b = b]
ReturnInt(n) == [NoRet EXCEPT !.kind = "return", !.t = "int", !.n = n]
ReturnStr(s) == [NoRet EXCEPT !.kind = "return", !.t = "str", !.s = s]
ReturnList(l) == [NoRet EXCEPT !.kind = "return", !.t = "list", !.l = l]

NoHandle == [elem |-> 0, stale |-> FALSE]

\* The arguments of a call. raise_exception is "default" when the caller
\* leaves it out; partial_non_containing_texts is None or a list.
FlagArgs == {"default", "true", "false"}
Flag(arg, default) == IF arg = "default" THEN default ELSE arg = "true"

NoTexts == [none |-> TRUE, texts |-> <<>>]
TextList(l) == [none |-> FALSE, texts |-> l]
PartialTexts == {<<>>, <<<<"a">>>>, <<<<"b">>>>, <<<<"a">>, <<"b">>>>}

CallLocators == {Factory(by, <<"a">>) : by \in Strategies}

NoCall == [op |-> "none", loc |-> BSLocator_css(<<>>), arg |-> "default", raise_exception |-> FALSE,
           containing |-> <<>>, non_containing |-> NoTexts]

\* A method is entered with its arguments bound.
Enter(op, l, arg, flag, containing, non_containing) ==
    /\ pc = "idle"
    /\ call' = [op |-> op, loc |-> l, arg |-> arg, raise_exception |-> flag,
                containing |-> containing, non_containing |-> non_containing]
    /\ clock' = 0
    /\ handle' = NoHandle
    /\ timedOut' = FALSE
    /\ clicked' = 0
    /\ attachedSeen' = presence_of_element_located(dom)
    /\ UNCHANGED <<dom, lvars, ivars, svars>>

\* The method is blocked in engine call p of method op.
At(op, p) == call.op = op /\ pc = p

\* The method moves on to engine call p.
Goto(p) ==
    /\ pc' = p
    /\ clock' = 0
    /\ UNCHANGED <<dom, call, handle, timedOut, clicked, attachedSeen, ret, lvars, ivars, svars>>

\* The engine wait gave up: the method moves on to engine call p.
GotoAfterTimeout(p) ==
    /\ pc' = p
    /\ clock' = 0
    /\ timedOut' = TRUE
    /\ UNCHANGED <<dom, call, handle, clicked, attachedSeen, ret, lvars, ivars, svars>>

\* The method ends, r reaching the caller.
Finish(r) ==
    /\ pc' = "done"
    /\ ret' = r
    /\ UNCHANGED <<dom, call, clock, handle, timedOut, clicked, attachedSeen, lvars, ivars, svars>>

FinishAfterTimeout(r) ==
    /\ pc' = "done"
    /\ ret' = r
    /\ timedOut' = TRUE
    /\ UNCHANGED <<dom, call, clock, handle, clicked, attachedSeen, lvars, ivars, svars>>

\* The caller has the outcome of the method in hand; the wrapper is free for
\* the next call.
Return ==
    /\ pc = "done"
    /\ pc' = "idle"
    /\ call' = NoCall
    /\ ret' = NoRet
    /\ clock' = 0
    /\ handle' = NoHandle
    /\ timedOut' = FALSE
    /\ clicked' = 0
    /\ attachedSeen' = FALSE
    /\ events' = <<>>
    /\ params' = [retry |-> FALSE, content |-> <<>>, before |-> <<>>]
    /\ UNCHANGED <<dom, field, lvars, svars>>

\* An engine wait whose condition is false has no polls left.
Expired == clock = MaxPolls

(***************************************************************************)
(* The page under test changes on its own.                                 *)
(***************************************************************************)
PageAttach ==
    \E e \in Elems :
        /\ ~dom[e].attached
        /\ dom' = [dom EXCEPT ![e] = Hidden]
        /\ attachedSeen' = (attachedSeen \/ pc \notin {"idle", "done"})
        /\ UNCHANGED <<call, pc, clock, handle, timedOut, clicked, ret, lvars, ivars, svars>>

PageShow ==
    \E e \in Elems :
        /\ dom[e].attached /\ ~dom[e].displayed
        /\ dom' = [dom EXCEPT ![e] = Shown]
        /\ UNCHANGED <<call, pc, clock, handle, timedOut, clicked, attachedSeen, ret, lvars, ivars, svars>>

PageHide ==
    \E e \in Elems :
        /\ dom[e].displayed
        /\ dom' = [dom EXCEPT ![e] = Hidden]
        /\ UNCHANGED <<call, pc, clock, handle, timedOut, clicked, attachedSeen, ret, lvars, ivars, svars>>

\* Removing an element makes every WebElement that refers to it stale, also
\* when the page later attaches a new element at the same place.
PageDetach ==
    \E e \in Elems :
        /\ dom[e].attached
        /\ dom' = [dom EXCEPT ![e] = Detached]
        /\ handle' = IF handle.elem = e THEN [handle EXCEPT !.stale = TRUE] ELSE handle
        /\ UNCHANGED <<call, pc, clock, timedOut, clicked, attachedSeen, ret, lvars, ivars, svars>>

\* A poll of the current engine wait found its condition false, with time left.
WaitConditions ==
    [expect_attached |-> presence_of_element_located(dom),
     expect_attached_again |-> presence_of_element_located(dom),
     wait_for_attached |-> presence_of_element_located(dom),
     inner_text |-> presence_of_element_located(dom),
     click |-> LET m == Filtered(dom, call.containing, call.non_containing.texts)
               IN m # {} /\ dom[First(m)].displayed,
     until_presence |-> presence_of_element_located(dom),
     until_visibility |-> visibility_of_element_located(dom),
     until_clickable |-> element_to_be_clickable(dom),
     until_invisibility |-> invisibility_of_element_located(dom),
     wait_for_visible |-> visibility_of_element_located(dom),
     hover |-> visibility_of_element_located(dom),
     bounding_box |-> presence_of_element_located(dom),
     focus |-> presence_of_element_located(dom),
     input_value |-> presence_of_element_located(dom),
     triple_click |-> visibility_of_element_located(dom),
     press |-> presence_of_element_located(dom),
     type |-> presence_of_element_located(dom)]

Holds(p) == WaitConditions[p]

Tick ==
    /\ pc \in DOMAIN WaitConditions
    /\ ~Holds(pc)
    /\ clock < MaxPolls
    /\ clock' = clock + 1
    /\ UNCHANGED <<dom, call, pc, handle, timedOut, clicked, attachedSeen, ret, lvars, ivars, svars>>

(***************************************************************************)
(* BSCmfx (bsplaywright/bscmfx.py).                                        *)
(***************************************************************************)
XPathPrefix == <<"x", "p", "a", "t", "h", "=">>

\* get_pw_locator: the Playwright selector of a BSLocator; ok is FALSE where
\* the method raises ValueError.
get_pw_locator(l) ==
    IF l.by = "css selector" THEN [ok |-> TRUE, selector |-> l.value]
    ELSE IF l.by = "xpath" THEN [ok |-> TRUE, selector |-> XPathPrefix \o l.value]
    ELSE [ok |-> FALSE, selector |-> <<>>]

\* The method goes on to engine call p, unless get_pw_locator raised, which
\* no except clause of the wrapper catches.
ResolveThen(l, p) ==
    IF get_pw_locator(l).ok
    THEN pc' = p /\ ret' = NoRet
    ELSE pc' = "done" /\ ret' = Raise("ValueError")

BSCmfx_is_element_present ==
    \/ \E l \in CallLocators :
          /\ Enter("BSCmfx.is_element_present", l, "default", FALSE, <<>>, NoTexts)
          /\ ResolveThen(l, "expect_attached")
    \/ /\ At("BSCmfx.is_element_present", "expect_attached")
       /\ Holds(pc)
       /\ Finish(ReturnBool(TRUE))
    \/ /\ At("BSCmfx.is_element_present", "expect_attached")
       /\ ~Holds(pc) /\ Expired
       /\ FinishAfterTimeout(ReturnBool(FALSE))

\* Locator.is_visible does not wait (its timeout is ignored by the engine): it
\* answers for the page as it is, False when nothing matches.
BSCmfx_is_element_visible ==
    \E l \in CallLocators :
        /\ Enter("BSCmfx.is_element_visible", l, "default", FALSE, <<>>, NoTexts)
        /\ IF get_pw_locator(l).ok
           THEN pc' = "done" /\ ret' = ReturnBool(visibility_of_element_located(dom))
           ELSE pc' = "done" /\ ret' = Raise("ValueError")

BSCmfx_wait_element_to_be_present ==
    \/ \E l \in CallLocators :
          /\ Enter("BSCmfx.wait_element_to_be_present", l, "default", FALSE, <<>>, NoTexts)
          /\ ResolveThen(l, "expect_attached")
    \/ /\ At("BSCmfx.wait_element_to_be_present", "expect_attached")
       /\ Holds(pc)
       /\ Finish(ReturnNone)
    \/ /\ At("BSCmfx.wait_element_to_be_present", "expect_attached")
       /\ ~Holds(pc) /\ Expired
       /\ FinishAfterTimeout(Raise("AssertionError"))

BSCmfx_get_element_text ==
    \/ \E l \in CallLocators, arg \in FlagArgs :
          /\ Enter("BSCmfx.get_element_text", l, arg, Flag(arg, TRUE), <<>>, NoTexts)
          /\ ResolveThen(l, "inner_text")
    \/ /\ At("BSCmfx.get_element_text", "inner_text")
       /\ Holds(pc)
       /\ Finish(ReturnStr(ElemText(First(Attached(dom)))))
    \/ /\ At("BSCmfx.get_element_text", "inner_text")
       /\ ~Holds(pc) /\ Expired
       /\ FinishAfterTimeout(IF call.raise_exception THEN Raise("TimeoutError") ELSE ReturnNone)

BSCmfx_get_elements_text ==
    \/ \E l \in CallLocators :
          /\ Enter("BSCmfx.get_elements_text", l, "default", FALSE, <<>>, NoTexts)
          /\ ResolveThen(l, "expect_attached")
    \/ /\ At("BSCmfx.get_elements_text", "expect_attached")
       /\ Holds(pc)
       /\ Goto("expect_attached_again")
    \/ /\ At("BSCmfx.get_elements_text", "expect_attached_again")
       /\ Holds(pc)
       /\ Goto("all_inner_texts")
    \/ /\ call.op = "BSCmfx.get_elements_text"
       /\ pc \in {"expect_attached", "expect_attached_again"}
       /\ ~Holds(pc) /\ Expired
       /\ FinishAfterTimeout(ReturnList(<<>>))
    \/ /\ At("BSCmfx.get_elements_text", "all_inner_texts")
       /\ Finish(ReturnList([k \in 1..Cardinality(Attached(dom)) |->
                                ElemText(InOrder(Attached(dom))[k])]))

BSCmfx_get_elements_count ==
    \/ \E l \in CallLocators :
          /\ Enter("BSCmfx.get_elements_count", l, "default", FALSE, <<>>, NoTexts)
          /\ ResolveThen(l, "wait_for_attached")
    \/ /\ At("BSCmfx.get_elements_count", "wait_for_attached")
       /\ Holds(pc)
       /\ Goto("count")
    \/ /\ At("BSCmfx.get_elements_count", "wait_for_attached")
       /\ ~Holds(pc) /\ Expired
       /\ FinishAfterTimeout(ReturnInt(0))
    \/ /\ At("BSCmfx.get_elements_count", "count")
       /\ Finish(ReturnInt(Cardinality(Attached(dom))))

BSCmfx_click_element_by_partial_texts ==
    \/ \E l \in CallLocators, containing \in PartialTexts,
          non_containing \in {NoTexts} \cup {TextList(t) : t \in PartialTexts} :
          /\ Enter("BSCmfx.click_element_by_partial_texts", l, "default", FALSE,
                   containing, non_containing)
          /\ ResolveThen(l, "expect_attached")
    \/ /\ At("BSCmfx.click_element_by_partial_texts", "expect_attached")
       /\ Holds(pc)
       /\ Goto("click")
    \/ /\ At("BSCmfx.click_element_by_partial_texts", "expect_attached")
       /\ ~Holds(pc) /\ Expired
       /\ FinishAfterTimeout(Raise("AssertionError"))
    \/ /\ At("BSCmfx.click_element_by_partial_texts", "click")
       /\ Holds(pc)
       /\ pc' = "done"
       /\ ret' = ReturnBool(TRUE)
       /\ clicked' = First(Filtered(dom, call.containing, call.non_containing.texts))
       /\ UNCHANGED <<dom, call, clock, handle, timedOut, attachedSeen, lvars, ivars, svars>>
    \/ /\ At("BSCmfx.click_element_by_partial_texts", "click")
       /\ ~Holds(pc) /\ Expired
       /\ FinishAfterTimeout(ReturnBool(FALSE))

(***************************************************************************)
(* BSWebDriver (bsselenium/webdriver.py).                                  *)
(***************************************************************************)
\* self.find_element(locator) with retry False, as the methods below call it:
\* one driver.find_element, whose NoSuchElementException is re-raised.
FindElementThen(p) ==
    IF presence_of_element_located(dom)
    THEN /\ pc' = p
         /\ handle' = [elem |-> First(Attached(dom)), stale |-> FALSE]
         /\ clock' = 0
         /\ UNCHANGED <<dom, call, timedOut, clicked, attachedSeen, ret, lvars, ivars, svars>>
    ELSE Finish(Raise("NoSuchElementException"))

BSWebDriver_is_element_present ==
    \/ \E l \in CallLocators :
          /\ Enter("BSWebDriver.is_element_present", l, "default", FALSE, <<>>, NoTexts)
          /\ pc' = "until_presence" /\ ret' = NoRet
    \/ /\ At("BSWebDriver.is_element_present", "until_presence")
       /\ Holds(pc)
       /\ Finish(ReturnBool(TRUE))
    \/ /\ At("BSWebDriver.is_element_present", "until_presence")
       /\ ~Holds(pc) /\ Expired
       /\ FinishAfterTimeout(ReturnBool(FALSE))

BSWebDriver_is_element_displayed ==
    \/ \E l \in CallLocators :
          /\ Enter("BSWebDriver.is_element_displayed", l, "default", FALSE, <<>>, NoTexts)
          /\ pc' = "until_presence" /\ ret' = NoRet
    \/ /\ At("BSWebDriver.is_element_displayed", "until_presence")
       /\ Holds(pc)
       /\ Goto("find_element")
    \/ /\ At("BSWebDriver.is_element_displayed", "until_presence")
       /\ ~Holds(pc) /\ Expired
       /\ FinishAfterTimeout(ReturnBool(FALSE))
    \/ /\ At("BSWebDriver.is_element_displayed", "find_element")
       /\ FindElementThen("is_displayed")
    \/ /\ At("BSWebDriver.is_element_displayed", "is_displayed")
       /\ Finish(IF handle.stale THEN Raise("StaleElementReferenceException")
                 ELSE ReturnBool(dom[handle.elem].displayed))

\* A mutant of wait_element_to_be_visible: the TimeoutException is swallowed
\* whatever raise_exception says.
BSWebDriver_wait_element_to_be_visible_swallow ==
    \/ \E l \in CallLocators, arg \in FlagArgs :
          /\ Enter("BSWebDriver.wait_element_to_be_visible", l, arg, Flag(arg, TRUE), <<>>, NoTexts)
          /\ pc' = "until_visibility" /\ ret' = NoRet
    \/ /\ At("BSWebDriver.wait_element_to_be_visible", "until_visibility")
       /\ Holds(pc)
       /\ Finish(ReturnNone)
    \/ /\ At("BSWebDriver.wait_element_to_be_visible", "until_visibility")
       /\ ~Holds(pc) /\ Expired
       /\ FinishAfterTimeout(ReturnNone)

BSWebDriver_wait_element_to_be_visible ==
    \/ \E l \in CallLocators, arg \in FlagArgs :
          /\ Enter("BSWebDriver.wait_element_to_be_visible", l, arg, Flag(arg, TRUE), <<>>, NoTexts)
          /\ pc' = "until_visibility" /\ ret' = NoRet
    \/ /\ At("BSWebDriver.wait_element_to_be_visible", "until_visibility")
       /\ Holds(pc)
       /\ Finish(ReturnNone)
    \/ /\ At("BSWebDriver.wait_element_to_be_visible", "until_visibility")
       /\ ~Holds(pc) /\ Expired
       /\ FinishAfterTimeout(IF call.raise_exception THEN Raise("TimeoutException") ELSE ReturnNone)

\* get_text: wait_element_to_be_visible(locator, raise_exception, timeout),
\* then find_element(locator).text inside try / except TimeoutException.
BSWebDriver_get_text ==
    \/ \E l \in CallLocators, arg \in FlagArgs :
          /\ Enter("BSWebDriver.get_text", l, arg, Flag(arg, FALSE), <<>>, NoTexts)
          /\ pc' = "until_visibility" /\ ret' = NoRet
    \/ /\ At("BSWebDriver.get_text", "until_visibility")
       /\ Holds(pc)
       /\ Goto("find_element")
    \/ /\ At("BSWebDriver.get_text", "until_visibility")
       /\ ~Holds(pc) /\ Expired
       /\ IF call.raise_exception
          THEN FinishAfterTimeout(Raise("TimeoutException"))
          ELSE GotoAfterTimeout("find_element")
    \/ /\ At("BSWebDriver.get_text", "find_element")
       /\ FindElementThen("text")
    \/ /\ At("BSWebDriver.get_text", "text")
       /\ Finish(IF handle.stale THEN Raise("StaleElementReferenceException")
                 ELSE ReturnStr(IF dom[handle.elem].displayed THEN ElemText(handle.elem) ELSE <<>>))

BSWebDriver_wait_element_to_be_present ==
    \/ \E l \in CallLocators :
          /\ Enter("BSWebDriver.wait_element_to_be_present", l, "default", TRUE, <<>>, NoTexts)
          /\ pc' = "until_presence" /\ ret' = NoRet
    \/ /\ At("BSWebDriver.wait_element_to_be_present", "until_presence")
       /\ Holds(pc)
       /\ Finish(ReturnNone)
    \/ /\ At("BSWebDriver.wait_element_to_be_present", "until_presence")
       /\ ~Holds(pc) /\ Expired
       /\ FinishAfterTimeout(Raise("TimeoutException"))

BSWebDriver_wait_element_to_be_clickable ==
    \/ \E l \in CallLocators, arg \in FlagArgs :
          /\ Enter("BSWebDriver.wait_element_to_be_clickable", l, arg, Flag(arg, TRUE), <<>>, NoTexts)
          /\ pc' = "until_clickable" /\ ret' = NoRet
    \/ /\ At("BSWebDriver.wait_element_to_be_clickable", "until_clickable")
       /\ Holds(pc)
       /\ Finish(ReturnNone)
    \/ /\ At("BSWebDriver.wait_element_to_be_clickable", "until_clickable")
       /\ ~Holds(pc) /\ Expired
       /\ FinishAfterTimeout(IF call.raise_exception THEN Raise("TimeoutException") ELSE ReturnNone)

BSWebDriver_wait_element_to_be_invisible ==
    \/ \E l \in CallLocators, arg \in FlagArgs :
          /\ Enter("BSWebDriver.wait_element_to_be_invisible", l, arg, Flag(arg, FALSE), <<>>, NoTexts)
          /\ pc' = "until_invisibility" /\ ret' = NoRet
    \/ /\ At("BSWebDriver.wait_element_to_be_invisible", "until_invisibility")
       /\ Holds(pc)
       /\ Finish(ReturnNone)
    \/ /\ At("BSWebDriver.wait_element_to_be_invisible", "until_invisibility")
       /\ ~Holds(pc) /\ Expired
       /\ FinishAfterTimeout(IF call.raise_exception THEN Raise("TimeoutException") ELSE ReturnNone)

(***************************************************************************)
(* Spec: one wrapper at a time serving calls against a changing page.      *)
(***************************************************************************)
NoCallYet ==
    /\ call = NoCall
    /\ pc = "idle"
    /\ clock = 0
    /\ handle = NoHandle
    /\ timedOut = FALSE
    /\ clicked = 0
    /\ attachedSeen = FALSE
    /\ ret = NoRet

\* An engine session (AsyncCamoufox) the wrapper has not constructed yet, and
\* a task that is running nothing.
NoEngine == [state |-> "unbuilt", exits |-> 0]

NoTask == [pc |-> "idle", eng |-> 0, op |-> "none", outcome |-> "none"]

Engines == 1..MaxEngines

Tasks == 1..MaxTasks

\* The class attributes of BSCmfx: no engine, no browser, no page.
NoSession ==
    /\ camoufox_instance = 0
    /\ browser = 0
    /\ page = 0
    /\ engines = [e \in Engines |-> NoEngine]
    /\ task = [t \in Tasks |-> NoTask]

NoParams == [retry |-> FALSE, content |-> <<>>, before |-> <<>>]

NoInteraction ==
    /\ events = <<>>
    /\ field = <<>>
    /\ params = NoParams

InitWrapper ==
    /\ dom \in [Elems -> {Detached, Hidden, Shown}]
    /\ NoCallYet
    /\ NoInteraction
    /\ NoSession

NoDerivation ==
    /\ self_loc = BSLocator_css(<<>>)
    /\ other = BSLocator_css(<<>>)
    /\ idx = 0
    /\ lop = "none"
    /\ lres = LNone

Init == InitWrapper /\ NoDerivation

Page == PageAttach \/ PageShow \/ PageHide \/ PageDetach

Next ==
    \/ Page
    \/ Tick
    \/ Return
    \/ BSCmfx_is_element_present
    \/ BSCmfx_is_element_visible
    \/ BSCmfx_wait_element_to_be_present
    \/ BSCmfx_get_element_text
    \/ BSCmfx_get_elements_text
    \/ BSCmfx_get_elements_count
    \/ BSCmfx_click_element_by_partial_texts
    \/ BSWebDriver_is_element_present
    \/ BSWebDriver_is_element_displayed
    \/ BSWebDriver_get_text
    \/ BSWebDriver_wait_element_to_be_present
    \/ BSWebDriver_wait_element_to_be_clickable
    \/ BSWebDriver_wait_element_to_be_visible
    \/ BSWebDriver_wait_element_to_be_invisible

Spec == Init /\ [][Next]_vars

(***************************************************************************)
(* SpecInteract: the humanized interactions of BSCmfx and the element      *)
(* lookups of BSWebDriver.  events is the log of what the call in progress *)
(* has dispatched to the engine: pointer and keyboard steps, pauses        *)
(* (wait_random) and lookups, in order.                                    *)
(***************************************************************************)
MaxContent == 2    \* longest content given to human_send_keys, in characters

Event(ev, ch) == [ev |-> ev, ch |-> ch]

\* The engine call of step pc completed: it is logged and the method moves
\* on to step p.
Emit(ev, ch, p) ==
    /\ events' = Append(events, Event(ev, ch))
    /\ pc' = p
    /\ clock' = 0
    /\ UNCHANGED <<dom, call, handle, timedOut, clicked, attachedSeen, ret,
                   field, params, lvars, svars>>

\* The same for a keyboard step that leaves the input element holding f.
EmitField(ev, ch, p, f) ==
    /\ events' = Append(events, Event(ev, ch))
    /\ field' = f
    /\ pc' = p
    /\ clock' = 0
    /\ UNCHANGED <<dom, call, handle, timedOut, clicked, attachedSeen, ret,
                   params, lvars, svars>>

\* The last engine call of the method completed: it is logged and r reaches
\* the caller.
EmitFinish(ev, ch, r) ==
    /\ events' = Append(events, Event(ev, ch))
    /\ pc' = "done"
    /\ ret' = r
    /\ UNCHANGED <<dom, call, clock, handle, timedOut, clicked, attachedSeen,
                   field, params, lvars, svars>>

\* An interaction is entered with its arguments bound.
EnterInteraction(op, l, content, retry, log) ==
    /\ pc = "idle"
    /\ call' = [NoCall EXCEPT !.op = op, !.loc = l]
    /\ params' = [retry |-> retry, content |-> content, before |-> field]
    /\ events' = log
    /\ clock' = 0
    /\ handle' = NoHandle
    /\ timedOut' = FALSE
    /\ clicked' = 0
    /\ attachedSeen' = presence_of_element_located(dom)
    /\ UNCHANGED <<dom, field, lvars, svars>>

\* page.locator(...) used without .first is strict: an engine call on it
\* raises when the selector matches more than one element.
StrictModeViolation == Cardinality(Attached(dom)) > 1

\* The locators of the interactions: one per branch of get_pw_locator.
InteractLocators == {BSLocator_css(<<"a">>), BSLocator_xpath(<<"a">>), BSLocator_id(<<"a">>)}

\* wait_random(min, max): asyncio.sleep for a drawn delay; the page goes on
\* changing meanwhile.
wait_random(p) == Emit("pause", "", p)

\* manual_click_element whose release precedes the second pause.
BSCmfx_manual_click_element_up_first ==
    \/ \E l \in InteractLocators :
          /\ EnterInteraction("BSCmfx.manual_click_element", l, <<>>, FALSE, <<>>)
          /\ ResolveThen(l, "wait_for_visible")
    \/ /\ At("BSCmfx.manual_click_element", "wait_for_visible")
       /\ StrictModeViolation
       /\ Finish(Raise("Error"))
    \/ /\ At("BSCmfx.manual_click_element", "wait_for_visible")
       /\ ~StrictModeViolation /\ Holds(pc)
       /\ Emit("wait_for", "", "hover")
    \/ /\ At("BSCmfx.manual_click_element", "hover")
       /\ StrictModeViolation
       /\ Finish(Raise("Error"))
    \/ /\ At("BSCmfx.manual_click_element", "hover")
       /\ ~StrictModeViolation /\ Holds(pc)
       /\ Emit("hover", "", "hover_pause")
    \/ /\ At("BSCmfx.manual_click_element", "hover_pause")
       /\ wait_random("bounding_box")
    \/ /\ At("BSCmfx.manual_click_element", "bounding_box")
       /\ Holds(pc) /\ visibility_of_element_located(dom)
       /\ Goto("mouse_move")
    \/ /\ At("BSCmfx.manual_click_element", "bounding_box")
       /\ Holds(pc) /\ ~visibility_of_element_located(dom)
       /\ Finish(Raise("TypeError"))
    \/ /\ call.op = "BSCmfx.manual_click_element"
       /\ pc \in {"wait_for_visible", "hover", "bounding_box"}
       /\ ~Holds(pc) /\ Expired
       /\ FinishAfterTimeout(Raise("TimeoutError"))
    \/ /\ At("BSCmfx.manual_click_element", "mouse_move")
       /\ Emit("move", "", "mouse_down")
    \/ /\ At("BSCmfx.manual_click_element", "mouse_down")
       /\ Emit("down", "", "mouse_up")
    \/ /\ At("BSCmfx.manual_click_element", "mouse_up")
       /\ Emit("up", "", "press_pause")
    \/ /\ At("BSCmfx.manual_click_element", "press_pause")
       /\ EmitFinish("pause", "", ReturnNone)

\* manual_click_element: waits for the (strict) locator to be visible,
\* hovers, pauses, reads the bounding box of the first match (None when it
\* is not visible, which the subscript turns into TypeError), moves the
\* pointer to the centre of the box, presses, pauses, releases.
BSCmfx_manual_click_element ==
    \/ \E l \in InteractLocators :
          /\ EnterInteraction("BSCmfx.manual_click_element", l, <<>>, FALSE, <<>>)
          /\ ResolveThen(l, "wait_for_visible")
    \/ /\ At("BSCmfx.manual_click_element", "wait_for_visible")
       /\ StrictModeViolation
       /\ Finish(Raise("Error"))
    \/ /\ At("BSCmfx.manual_click_element", "wait_for_visible")
       /\ ~StrictModeViolation /\ Holds(pc)
       /\ Emit("wait_for", "", "hover")
    \/ /\ At("BSCmfx.manual_click_element", "hover")
       /\ StrictModeViolation
       /\ Finish(Raise("Error"))
    \/ /\ At("BSCmfx.manual_click_element", "hover")
       /\ ~StrictModeViolation /\ Holds(pc)
       /\ Emit("hover", "", "hover_pause")
    \/ /\ At("BSCmfx.manual_click_element", "hover_pause")
       /\ wait_random("bounding_box")
    \/ /\ At("BSCmfx.manual_click_element", "bounding_box")
       /\ Holds(pc) /\ visibility_of_element_located(dom)
       /\ Goto("mouse_move")
    \/ /\ At("BSCmfx.manual_click_element", "bounding_box")
       /\ Holds(pc) /\ ~visibility_of_element_located(dom)
       /\ Finish(Raise("TypeError"))
    \/ /\ call.op = "BSCmfx.manual_click_element"
       /\ pc \in {"wait_for_visible", "hover", "bounding_box"}
       /\ ~Holds(pc) /\ Expired
       /\ FinishAfterTimeout(Raise("TimeoutError"))
    \/ /\ At("BSCmfx.manual_click_element", "mouse_move")
       /\ Emit("move", "", "mouse_down")
    \/ /\ At("BSCmfx.manual_click_element", "mouse_down")
       /\ Emit("down", "", "press_pause")
    \/ /\ At("BSCmfx.manual_click_element", "press_pause")
       /\ wait_random("mouse_up")
    \/ /\ At("BSCmfx.manual_click_element", "mouse_up")
       /\ EmitFinish("up", "", ReturnNone)

\* The contents given to human_send_keys.
Contents == UNION {[1..n -> {"a", "b"}] : n \in 0..MaxContent}

\* The characters human_send_keys has submitted so far.
Typed == SelectSeq(events, LAMBDA x : x.ev = "type")

\* After the clear, or after a typing pause: the next character, or the end
\* of the loop over content.
TypeNext == IF Len(Typed) < Len(params.content) THEN "type" ELSE "typed"

\* clear_input (inside human_send_keys): reads the value of the element and,
\* only when it is non-empty, triple-clicks it, pauses and presses Backspace,
\* which deletes the selected value.
BSCmfx_clear_input ==
    \/ /\ pc = "input_value"
       /\ ~StrictModeViolation /\ Holds(pc)
       /\ Goto(IF field # <<>> THEN "triple_click" ELSE TypeNext)
    \/ /\ pc = "triple_click"
       /\ ~StrictModeViolation /\ Holds(pc)
       /\ Emit("click", "3", "clear_pause")
    \/ /\ pc = "clear_pause"
       /\ wait_random("press")
    \/ /\ pc = "press"
       /\ ~StrictModeViolation /\ Holds(pc)
       /\ EmitField("press", "Backspace", TypeNext, <<>>)

\* human_send_keys that types the characters of content without pausing.
BSCmfx_human_send_keys_unpaced ==
    \/ \E l \in InteractLocators, content \in Contents :
          /\ EnterInteraction("BSCmfx.human_send_keys", l, content, FALSE, <<>>)
          /\ ResolveThen(l, "focus")
    \/ /\ At("BSCmfx.human_send_keys", "focus")
       /\ ~StrictModeViolation /\ Holds(pc)
       /\ Emit("focus", "", "input_value")
    \/ /\ call.op = "BSCmfx.human_send_keys"
       /\ BSCmfx_clear_input
    \/ /\ At("BSCmfx.human_send_keys", "type")
       /\ ~StrictModeViolation /\ Holds(pc)
       /\ LET c == params.content[Len(Typed) + 1] IN
            EmitField("type", c, IF Len(Typed) + 1 < Len(params.content) THEN "type" ELSE "typed",
                      Append(field, c))
    \/ /\ At("BSCmfx.human_send_keys", "typed")
       /\ Finish(ReturnNone)
    \/ /\ call.op = "BSCmfx.human_send_keys"
       /\ pc \in {"focus", "input_value", "triple_click", "press", "type"}
       /\ StrictModeViolation
       /\ Finish(Raise("Error"))
    \/ /\ call.op = "BSCmfx.human_send_keys"
       /\ pc \in {"focus", "input_value", "triple_click", "press", "type"}
       /\ ~StrictModeViolation /\ ~Holds(pc) /\ Expired
       /\ FinishAfterTimeout(Raise("TimeoutError"))

\* human_send_keys: focuses the (strict) locator, clears it through
\* clear_input, then for each character of content types it and pauses.
BSCmfx_human_send_keys ==
    \/ \E l \in InteractLocators, content \in Contents :
          /\ EnterInteraction("BSCmfx.human_send_keys", l, content, FALSE, <<>>)
          /\ ResolveThen(l, "focus")
    \/ /\ At("BSCmfx.human_send_keys", "focus")
       /\ ~StrictModeViolation /\ Holds(pc)
       /\ Emit("focus", "", "input_value")
    \/ /\ call.op = "BSCmfx.human_send_keys"
       /\ BSCmfx_clear_input
    \/ /\ At("BSCmfx.human_send_keys", "type")
       /\ ~StrictModeViolation /\ Holds(pc)
       /\ LET c == params.content[Len(Typed) + 1] IN
            EmitField("type", c, "type_pause", Append(field, c))
    \/ /\ At("BSCmfx.human_send_keys", "type_pause")
       /\ wait_random(TypeNext)
    \/ /\ At("BSCmfx.human_send_keys", "typed")
       /\ Finish(ReturnNone)
    \/ /\ call.op = "BSCmfx.human_send_keys"
       /\ pc \in {"focus", "input_value", "triple_click", "press", "type"}
       /\ StrictModeViolation
       /\ Finish(Raise("Error"))
    \/ /\ call.op = "BSCmfx.human_send_keys"
       /\ pc \in {"focus", "input_value", "triple_click", "press", "type"}
       /\ ~StrictModeViolation /\ ~Holds(pc) /\ Expired
       /\ FinishAfterTimeout(Raise("TimeoutError"))

ReturnElement(e) == [NoRet EXCEPT !.kind = "return", !.t = "WebElement", !.n = e]

\* One driver.find_element / driver.find_elements, logged with its result.
Lookup(hit) == Event("lookup", IF hit THEN "hit" ELSE "miss")

RetryArgs == {"default", "true", "false"}

\* find_element that never repeats the lookup.
BSWebDriver_find_element_once ==
    \E l \in CallLocators, arg \in RetryArgs :
        /\ EnterInteraction("BSWebDriver.find_element", l, <<>>, Flag(arg, FALSE),
                           <<Lookup(presence_of_element_located(dom))>>)
        /\ pc' = "done"
        /\ ret' = IF presence_of_element_located(dom)
                  THEN ReturnElement(First(Attached(dom)))
                  ELSE Raise("NoSuchElementException")

\* find_element: one driver.find_element; on NoSuchElementException with
\* retry set, find_element(locator, False) at once, else the exception.
BSWebDriver_find_element ==
    \/ \E l \in CallLocators, arg \in RetryArgs :
          /\ EnterInteraction("BSWebDriver.find_element", l, <<>>, Flag(arg, FALSE),
                           <<Lookup(presence_of_element_located(dom))>>)
          /\ IF presence_of_element_located(dom)
             THEN pc' = "done" /\ ret' = ReturnElement(First(Attached(dom)))
             ELSE IF Flag(arg, FALSE)
                  THEN pc' = "find_element_again" /\ ret' = NoRet
                  ELSE pc' = "done" /\ ret' = Raise("NoSuchElementException")
    \/ /\ At("BSWebDriver.find_element", "find_element_again")
       /\ EmitFinish("lookup", IF presence_of_element_located(dom) THEN "hit" ELSE "miss",
                     IF presence_of_element_located(dom)
                     THEN ReturnElement(First(Attached(dom)))
                     ELSE Raise("NoSuchElementException"))

\* find_elements: one driver.find_elements; on an empty list with retry set,
\* find_elements(locator, False) at once; the last list is returned.
BSWebDriver_find_elements ==
    \/ \E l \in CallLocators, arg \in RetryArgs :
          /\ EnterInteraction("BSWebDriver.find_elements", l, <<>>, Flag(arg, FALSE),
                           <<Lookup(Attached(dom) # {})>>)
          /\ IF Attached(dom) = {} /\ Flag(arg, FALSE)
             THEN pc' = "find_elements_again" /\ ret' = NoRet
             ELSE pc' = "done" /\ ret' = ReturnList(InOrder(Attached(dom)))
    \/ /\ At("BSWebDriver.find_elements", "find_elements_again")
       /\ EmitFinish("lookup", IF Attached(dom) # {} THEN "hit" ELSE "miss",
                     ReturnList(InOrder(Attached(dom))))

\* The values the input element can hold before the first call.
FieldValues == {<<>>, <<"b">>}

InitInteract ==
    /\ dom \in [Elems -> {Detached, Hidden, Shown}]
    /\ NoCallYet
    /\ events = <<>>
    /\ params = NoParams
    /\ field \in FieldValues
    /\ NoSession
    /\ NoDerivation

NextInteract ==
    \/ Page
    \/ Tick
    \/ Return
    \/ BSCmfx_manual_click_element
    \/ BSCmfx_human_send_keys
    \/ BSWebDriver_find_element
    \/ BSWebDriver_find_elements

SpecInteract == InitInteract /\ [][NextInteract]_vars

(***************************************************************************)
(* SpecLocator: the derivations applied to every bounded input.            *)
(***************************************************************************)
InitLocator ==
    /\ self_loc \in Locators
    /\ other = BSLocator_css(<<>>)
    /\ idx = 0
    /\ lop = "none"
    /\ lres = LNone
    /\ dom = [e \in Elems |-> Detached]
    /\ NoCallYet
    /\ NoInteraction
    /\ NoSession

\* A BSLocator is never mutated, so one derivation per drawn receiver reaches
\* every outcome.
CallGetDescendant ==
    \E o \in OtherLocators :
        /\ lop = "none"
        /\ other' = o
        /\ lop' = "get_descendant"
        /\ lres' = get_descendant(self_loc, o)
        /\ idx' = 0
        /\ UNCHANGED <<self_loc, wvars, ivars, svars>>

CallGetNthElement ==
    \E i \in Indices :
        /\ lop = "none"
        /\ idx' = i
        /\ lop' = "get_nth_element"
        /\ lres' = get_nth_element(self_loc, i)
        /\ other' = BSLocator_css(<<>>)
        /\ UNCHANGED <<self_loc, wvars, ivars, svars>>

NextLocator == CallGetDescendant \/ CallGetNthElement

SpecLocator == InitLocator /\ [][NextLocator]_vars

(***************************************************************************)
(* The BSCmfx session lifecycle: initialize(), quit(), __del__.  Each call *)
(* runs in an asyncio task and is suspended at every await of the engine;  *)
(* the steps between two awaits are atomic, as the event loop runs them.   *)
(***************************************************************************)
wlvars == <<self_loc, other, idx, lop, lres,
            dom, call, pc, clock, handle, timedOut, clicked, attachedSeen, ret,
            events, field, params>>

Idle(t) == task[t].pc = "idle"

NoCallInFlight == \A t \in Tasks : Idle(t)

\* The engine session the next AsyncCamoufox(**config) constructs.
Unbuilt == {e \in Engines : engines[e].state = "unbuilt"}

Launched == {e \in Engines : engines[e].state = "launched"}

\* How an awaited AsyncCamoufox.__aexit__ ends: releasing a launched browser
\* returns; on a session that never launched, or that was released already,
\* the engine may return or raise.
AexitOutcomes(e) ==
    IF engines[e].state = "launched" THEN {"returned"} ELSE {"returned", "raised"}

Released(e) ==
    [engines EXCEPT ![e].state = IF @ = "launched" THEN "released" ELSE @]

Ended(t, o) == [task EXCEPT ![t].pc = "idle", ![t].eng = 0, ![t].outcome = o]

\* initialize(): builds the configuration (which raises on an unknown
\* platform), constructs an AsyncCamoufox into _camoufox_instance whatever
\* it held before, awaits its __aenter__ into browser, then awaits new_page
\* into page.  A call begins only when no other call is in flight.
BSCmfx_initialize(t) ==
    \/ /\ NoCallInFlight
       /\ task' = [task EXCEPT ![t] = [pc |-> "idle", eng |-> 0,
                                       op |-> "initialize", outcome |-> "raised"]]
       /\ UNCHANGED <<camoufox_instance, browser, page, engines, wlvars>>
    \/ /\ NoCallInFlight
       /\ Unbuilt # {}
       /\ LET e == First(Unbuilt) IN
            /\ camoufox_instance' = e
            /\ engines' = [engines EXCEPT ![e].state = "constructed"]
            /\ task' = [task EXCEPT ![t] = [pc |-> "aenter", eng |-> e,
                                            op |-> "initialize", outcome |-> "none"]]
       /\ UNCHANGED <<browser, page, wlvars>>
    \/ /\ task[t].pc = "aenter"
       /\ engines' = [engines EXCEPT ![task[t].eng].state = "launched"]
       /\ browser' = task[t].eng
       /\ task' = [task EXCEPT ![t].pc = "new_page"]
       /\ UNCHANGED <<camoufox_instance, page, wlvars>>
    \/ /\ task[t].pc = "aenter"
       /\ engines' = [engines EXCEPT ![task[t].eng].state = "failed"]
       /\ task' = Ended(t, "raised")
       /\ UNCHANGED <<camoufox_instance, browser, page, wlvars>>
    \/ /\ task[t].pc = "new_page"
       /\ page' = task[t].eng
       /\ task' = Ended(t, "returned")
       /\ UNCHANGED <<camoufox_instance, browser, engines, wlvars>>
    \/ /\ task[t].pc = "new_page"
       /\ task' = Ended(t, "raised")
       /\ UNCHANGED <<camoufox_instance, browser, page, engines, wlvars>>

\* quit() that clears the handles before it awaits the release.
BSCmfx_quit_clear_first(t) ==
    \/ /\ task[t].pc \in {"idle", "scheduled"}
       /\ camoufox_instance = 0
       /\ task' = [task EXCEPT ![t] = [pc |-> "idle", eng |-> 0,
                                       op |-> "quit", outcome |-> "returned"]]
       /\ UNCHANGED <<camoufox_instance, browser, page, engines, wlvars>>
    \/ /\ task[t].pc \in {"idle", "scheduled"}
       /\ camoufox_instance # 0
       /\ engines[camoufox_instance].exits < MaxExits
       /\ engines' = [engines EXCEPT ![camoufox_instance].exits = @ + 1]
       /\ task' = [task EXCEPT ![t] = [pc |-> "aexit", eng |-> camoufox_instance,
                                       op |-> IF task[t].pc = "scheduled" THEN "__del__" ELSE "quit",
                                       outcome |-> "none"]]
       /\ camoufox_instance' = 0
       /\ browser' = 0
       /\ page' = 0
       /\ UNCHANGED wlvars
    \/ /\ task[t].pc = "aexit"
       /\ \E o \in AexitOutcomes(task[t].eng) :
            /\ engines' = IF o = "returned" THEN Released(task[t].eng) ELSE engines
            /\ task' = Ended(t, o)
       /\ UNCHANGED <<camoufox_instance, browser, page, wlvars>>

\* quit(): with no engine held it returns at once; otherwise it invokes the
\* engine's __aexit__, is suspended until that returns, and only then sets
\* _camoufox_instance, browser and page to None.  An __aexit__ that raises
\* leaves the three as they were.
BSCmfx_quit(t) ==
    \/ /\ task[t].pc \in {"idle", "scheduled"}
       /\ camoufox_instance = 0
       /\ task' = [task EXCEPT ![t] = [pc |-> "idle", eng |-> 0,
                                       op |-> "quit", outcome |-> "returned"]]
       /\ UNCHANGED <<camoufox_instance, browser, page, engines, wlvars>>
    \/ /\ task[t].pc \in {"idle", "scheduled"}
       /\ camoufox_instance # 0
       /\ engines[camoufox_instance].exits < MaxExits
       /\ engines' = [engines EXCEPT ![camoufox_instance].exits = @ + 1]
       /\ task' = [task EXCEPT ![t] = [pc |-> "aexit", eng |-> camoufox_instance,
                                       op |-> IF task[t].pc = "scheduled" THEN "__del__" ELSE "quit",
                                       outcome |-> "none"]]
       /\ UNCHANGED <<camoufox_instance, browser, page, wlvars>>
    \/ /\ task[t].pc = "aexit"
       /\ engines' = Released(task[t].eng)
       /\ camoufox_instance' = 0
       /\ browser' = 0
       /\ page' = 0
       /\ task' = Ended(t, "returned")
       /\ UNCHANGED wlvars
    \/ /\ task[t].pc = "aexit"
       /\ "raised" \in AexitOutcomes(task[t].eng)
       /\ task' = Ended(t, "raised")
       /\ UNCHANGED <<camoufox_instance, browser, page, engines, wlvars>>

\* __aexit__ of the wrapper awaits quit() and nothing else.
BSCmfx___aexit__(t) == BSCmfx_quit(t)

\* __del__: with an engine held and the event loop running, it schedules
\* quit() as a task of its own and returns; the scheduled quit() reads the
\* handle when the loop first runs it.  Without an engine it does nothing.
BSCmfx___del__(t) ==
    /\ Idle(t)
    /\ camoufox_instance # 0
    /\ task' = [task EXCEPT ![t] = [pc |-> "scheduled", eng |-> 0,
                                    op |-> "__del__", outcome |-> "none"]]
    /\ UNCHANGED <<camoufox_instance, browser, page, engines, wlvars>>

InitSession ==
    /\ NoDerivation
    /\ dom = [e \in Elems |-> Detached]
    /\ NoCallYet
    /\ NoInteraction
    /\ NoSession

\* SpecSession: calls on one wrapper made one after the other, each awaited
\* by the one task that makes them.
Caller == 1

NextSession ==
    \/ BSCmfx_initialize(Caller)
    \/ BSCmfx_quit(Caller)

SpecSession == InitSession /\ [][NextSession]_vars

\* SpecSessionTasks: quit() may also begin while another quit() is suspended,
\* from an explicit call, from __aexit__ or from the task __del__ scheduled.
NoInitializeInFlight == \A t \in Tasks : task[t].pc \notin {"aenter", "new_page"}

\* A call that begins takes the first task that runs nothing.
Free(t) == Idle(t) => \A u \in Tasks : Idle(u) => t <= u

NextSessionTasks ==
    \E t \in Tasks :
        \/ Free(t) /\ BSCmfx_initialize(t)
        \/ Free(t) /\ NoInitializeInFlight /\ BSCmfx_quit(t)
        \/ Free(t) /\ NoInitializeInFlight /\ BSCmfx___aexit__(t)
        \/ Free(t) /\ NoInitializeInFlight /\ BSCmfx___del__(t)

SpecSessionTasks == InitSession /\ [][NextSessionTasks]_vars

(***************************************************************************)
(* Claims about the session wrappers (checked under Spec).                 *)
(***************************************************************************)
Done(op) == pc = "done" /\ call.op = op

\* The strategies get_pw_locator resolves; BSWebDriver takes all eight.
BothEngines(l) == l.by \in {By_CSS_SELECTOR, By_XPATH}

\* C1: is_element_present never raises, in both wrappers and for a locator
\* of any of the eight strategies: it returns True when a matching element is
\* attached within the timeout and False otherwise.
C1_PresentNeverRaises ==
    (Done("BSCmfx.is_element_present") \/ Done("BSWebDriver.is_element_present")) =>
        /\ ret.kind = "return"
        /\ ret.t = "bool"
        /\ ret.b = ~timedOut

\* C2: the visibility probe (BSCmfx.is_element_visible,
\* BSWebDriver.is_element_displayed) never raises and always returns a
\* boolean, in every state of the page, also when the page removes the matched
\* element between the presence check and the element lookup or displayed
\* query. Stated for the css and xpath locators both wrappers resolve.
C2_VisibleNeverRaises ==
    (/\ Done("BSCmfx.is_element_visible") \/ Done("BSWebDriver.is_element_displayed")
     /\ BothEngines(call.loc)) =>
        ret.kind = "return" /\ ret.t = "bool"

\* C3: for every BSLocator, when no matching element attaches within the
\* timeout, get_elements_text returns the empty list and get_elements_count
\* returns 0, and nothing is raised.
C3_CollectionsNeverRaise ==
    /\ (Done("BSCmfx.get_elements_text") /\ ~attachedSeen) => ret = ReturnList(<<>>)
    /\ (Done("BSCmfx.get_elements_count") /\ ~attachedSeen) => ret = ReturnInt(0)

\* C4: singular text retrieval honours its raise flag in both wrappers: when
\* the element never appears within the timeout, the call returns None and
\* raises nothing if the flag is false, and raises the timeout error if the
\* flag is true. Stated for the css and xpath locators both wrappers resolve.
C4_TextHonoursRaiseFlag ==
    (/\ Done("BSCmfx.get_element_text") \/ Done("BSWebDriver.get_text")
     /\ BothEngines(call.loc)
     /\ ~attachedSeen) =>
        IF call.raise_exception
        THEN ret.kind = "raise" /\ ret.exc \in {"TimeoutError", "TimeoutException"}
        ELSE ret = ReturnNone

\* C5: for wait_element_to_be_clickable / _visible / _invisible of
\* BSWebDriver a timeout of the awaited condition reaches the caller exactly
\* when raise_exception is true, the call returning silently otherwise; left
\* out, the flag is true for clickable and visible and false for invisible;
\* wait_element_to_be_present has no flag and always propagates the timeout.
FlaggedWaits == {"BSWebDriver.wait_element_to_be_clickable",
                 "BSWebDriver.wait_element_to_be_visible",
                 "BSWebDriver.wait_element_to_be_invisible"}

DocumentedFlag ==
    IF call.arg = "default"
    THEN call.op # "BSWebDriver.wait_element_to_be_invisible"
    ELSE call.arg = "true"

C5_WaitsPropagateByFlag ==
    /\ (pc = "done" /\ call.op \in FlaggedWaits) =>
          IF timedOut /\ DocumentedFlag
          THEN ret = Raise("TimeoutException")
          ELSE ret = ReturnNone
    /\ Done("BSWebDriver.wait_element_to_be_present") =>
          IF timedOut THEN ret = Raise("TimeoutException") ELSE ret = ReturnNone

C5_Witness ==
    /\ Done("BSWebDriver.wait_element_to_be_invisible")
    /\ call.arg = "default"
    /\ timedOut
    /\ ret = ReturnNone

\* C6: click_element_by_partial_texts returns a boolean and raises no
\* timeout: True after clicking the first element that contains every
\* include-text and none of the exclude-texts, False when no element satisfies
\* the filter within the timeout, also when the base locator matches no
\* element at all. Stated for the css and xpath locators BSCmfx resolves.
C6_ClickByTextsReturnsBool ==
    (Done("BSCmfx.click_element_by_partial_texts") /\ BothEngines(call.loc)) =>
        /\ ret.kind = "return"
        /\ ret.t = "bool"
        /\ ret.b = (clicked # 0)
        /\ ~attachedSeen => ~ret.b

(***************************************************************************)
(* Claims about the derivations (checked under SpecLocator).               *)
(***************************************************************************)
CombinableStrategies == {By_CSS_SELECTOR, By_XPATH}

\* C7: get_descendant and get_nth_element raise when the receiver's strategy
\* is neither css selector nor xpath, and otherwise return a locator of the
\* receiver's own strategy.
C7_DerivationByStrategy ==
    lop \in {"get_descendant", "get_nth_element"} =>
        IF self_loc.by \in CombinableStrategies
        THEN lres.kind = "return" /\ lres.by = self_loc.by
        ELSE lres.kind = "raise"

C7_Witness ==
    /\ lop = "get_descendant"
    /\ self_loc.by = By_LINK_TEXT
    /\ self_loc.value = <<"a">>
    /\ lres.kind = "raise"

\* The comma-separated subselectors of a css value, read off the positions of
\* its commas: each piece between two consecutive commas (or an end of the
\* value), trimmed of surrounding whitespace, blank pieces left out.
CommaCuts(v) == {0, Len(v) + 1} \cup {k \in 1..Len(v) : v[k] = ","}

Trimmed(v, lo, hi) ==
    LET ink == {k \in lo..hi : v[k] # " "}
    IN IF ink = {} THEN <<>>
       ELSE SubSeq(v, CHOOSE k \in ink : \A m \in ink : k <= m,
                      CHOOSE k \in ink : \A m \in ink : k >= m)

RECURSIVE SubselectorsFrom(_, _)
SubselectorsFrom(v, cut) ==
    IF cut = Len(v) + 1 THEN <<>>
    ELSE LET nxt == CHOOSE c \in CommaCuts(v) :
                        c > cut /\ \A d \in CommaCuts(v) : d > cut => c <= d
             piece == Trimmed(v, cut + 1, nxt - 1)
         IN (IF piece = <<>> THEN <<>> ELSE <<piece>>) \o SubselectorsFrom(v, nxt)

Subselectors(v) == SubselectorsFrom(v, 0)

\* The union "p1, p2, ..." of the selectors ps, built from the last one back.
RECURSIVE UnionOf(_)
UnionOf(ps) ==
    IF Len(ps) = 0 THEN <<>>
    ELSE IF Len(ps) = 1 THEN ps[1]
    ELSE UnionOf(SubSeq(ps, 1, Len(ps) - 1)) \o <<",", " ">> \o ps[Len(ps)]

\* C8: get_descendant on a css parent returns the css locator whose value is
\* "s <other.value>" for each subselector s of the parent in order, joined by
\* ", " ("a, b" with "c" gives "a c, b c"); on an xpath parent the value is the
\* parent's value immediately followed by the child's value.
C8_DescendantValue ==
    (lop = "get_descendant" /\ lres.kind = "return") =>
        /\ self_loc.by = By_CSS_SELECTOR =>
              /\ lres.by = By_CSS_SELECTOR
              /\ lres.value =
                   UnionOf([k \in 1..Len(Subselectors(self_loc.value)) |->
                              Subselectors(self_loc.value)[k] \o <<" ">> \o other.value])
        /\ (self_loc = BSLocator_css(<<"a", ",", " ", "b">>) /\ other.value = <<"c">>) =>
              lres.value = <<"a", " ", "c", ",", " ", "b", " ", "c">>
        /\ self_loc.by = By_XPATH =>
              /\ lres.by = By_XPATH
              /\ Len(lres.value) = Len(self_loc.value) + Len(other.value)
              /\ SubSeq(lres.value, 1, Len(self_loc.value)) = self_loc.value
              /\ SubSeq(lres.value, Len(self_loc.value) + 1, Len(lres.value)) = other.value

C8_Witness ==
    /\ lop = "get_descendant"
    /\ self_loc = BSLocator_css(<<"a", ",", " ", "b">>)
    /\ other = BSLocator_css(<<"c">>)
    /\ lres = LReturn(BSLocator_css(<<"a", " ", "c", ",", " ", "b", " ", "c">>))

\* C9: get_nth_element(i) on an xpath locator with value v returns the xpath
\* locator "(v)[i]" ("//div" and 3 give "(//div)[3]"); on a css locator it
\* returns a css locator with as many subselectors as the input, each being
\* the input's subselector followed by ":nth-child(i)".
C9_NthElementValue ==
    (lop = "get_nth_element" /\ lres.kind = "return") =>
        /\ self_loc.by = By_XPATH =>
              /\ lres.by = By_XPATH
              /\ lres.value = <<"(">> \o self_loc.value \o <<")">> \o <<"[">> \o IntStr(idx) \o <<"]">>
        /\ (self_loc = BSLocator_xpath(<<"/", "/", "d", "i", "v">>) /\ idx = 3) =>
              lres.value = <<"(", "/", "/", "d", "i", "v", ")", "[", "3", "]">>
        /\ self_loc.by = By_CSS_SELECTOR =>
              /\ lres.by = By_CSS_SELECTOR
              /\ Len(Subselectors(lres.value)) = Len(Subselectors(self_loc.value))
              /\ \A k \in 1..Len(Subselectors(self_loc.value)) :
                    Subselectors(lres.value)[k] =
                        Subselectors(self_loc.value)[k] \o NthChildOpen \o IntStr(idx) \o <<")">>

C9_Witness ==
    /\ lop = "get_nth_element"
    /\ self_loc = BSLocator_xpath(<<"/", "/", "d", "i", "v">>)
    /\ idx = 3
    /\ lres = LReturn(BSLocator_xpath(<<"(", "/", "/", "d", "i", "v", ")", "[", "3", "]">>))

\* s occurs in t as a contiguous run of characters.
Occurs(s, t) ==
    \E k \in 0..(Len(t) - Len(s)) : SubSeq(t, k + 1, k + Len(s)) = s

\* C10: a value is never reinterpreted under another strategy: whenever
\* get_descendant embeds other's value in its result, the result has other's
\* own strategy.
C10_NoReinterpretation ==
    (/\ lop = "get_descendant"
     /\ lres.kind = "return"
     /\ Occurs(other.value, lres.value)) => lres.by = other.by

(***************************************************************************)
(* Claims about the session lifecycle (SpecSession, SpecSessionTasks).     *)
(***************************************************************************)
\* C11: BSCmfx holds at most one live engine session: after any sequence of
\* initialize() and quit() calls on one instance, at most one engine session
\* is launched and not yet released, and every such session is the one
\* _camoufox_instance references.
C11_AtMostOneLiveSession ==
    /\ Cardinality(Launched) <= 1
    /\ \A e \in Launched : camoufox_instance = e

\* A sequential quit() that has returned to its caller.
QuitReturned ==
    /\ Idle(Caller)
    /\ task[Caller].op = "quit"
    /\ task[Caller].outcome = "returned"

EverLaunched == {e \in Engines : engines[e].state \in {"launched", "released"}}

\* C12: under sequential calls quit() is safe in every lifecycle state: it
\* never raises while the engine it holds was launched, it leaves
\* _camoufox_instance, browser and page None, and once it has returned the
\* release has been invoked exactly once on every engine that was launched.
C12_QuitReleasesEachOnce ==
    /\ \A e \in Launched :
          task[Caller].op = "quit" /\ camoufox_instance = e =>
              task[Caller].outcome # "raised"
    /\ QuitReturned =>
          /\ camoufox_instance = 0 /\ browser = 0 /\ page = 0
          /\ \A e \in EverLaunched : engines[e].exits = 1

InRelease(e) == {t \in Tasks : task[t].pc = "aexit" /\ task[t].eng = e}

\* C13: quit() is not idempotent under concurrent invocation: the handle is
\* cleared only after the awaited release returns, so while one quit() is
\* suspended in the release of a launched session _camoufox_instance still
\* references that session, and every quit() that begins meanwhile invokes
\* the release of the same session again.
C13_HandleHeldThroughRelease ==
    \A e \in Launched :
        InRelease(e) # {} =>
            /\ camoufox_instance = e
            /\ engines[e].exits >= Cardinality(InRelease(e))

\* Two quit() tasks in flight on one launched session, one of them the task
\* __del__ scheduled, with the release invoked twice.
C13_Witness ==
    \E e \in Launched :
        /\ engines[e].exits = 2
        /\ Cardinality(InRelease(e)) = 2
        /\ \E t \in InRelease(e) : task[t].op = "__del__"
        /\ \E t \in InRelease(e) : task[t].op = "quit"

(***************************************************************************)
(* Claims about the interactions and the lookups (SpecInteract).           *)
(***************************************************************************)
IsPrefix(a, b) == Len(a) <= Len(b) /\ SubSeq(b, 1, Len(a)) = a

Completed(op) == Done(op) /\ ret.kind = "return"

PointerEvents == {"hover", "move", "down", "up"}

\* The steps of a click as the claim lists them, and as the method has them.
ClickStepsClaimed ==
    <<Event("wait_for", ""), Event("hover", ""), Event("pause", ""),
      Event("down", ""), Event("pause", ""), Event("up", "")>>

ClickSteps ==
    <<Event("wait_for", ""), Event("hover", ""), Event("pause", ""), Event("move", ""),
      Event("down", ""), Event("pause", ""), Event("up", "")>>

\* C14 as stated: manual_click_element performs exactly these steps, in this
\* order: wait for visibility, hover, first randomized pause, press, second
\* randomized pause, release.
C14_ClickStepsAsStated ==
    call.op = "BSCmfx.manual_click_element" =>
        /\ IsPrefix(events, ClickStepsClaimed)
        /\ Completed("BSCmfx.manual_click_element") => events = ClickStepsClaimed

\* C14 (amended): the steps of manual_click_element are, in this order, wait
\* for visibility, hover, first randomized pause, pointer move to the centre
\* of the bounding box of the first match, press, second randomized pause,
\* release.  No pointer event is dispatched unless the visibility wait has
\* succeeded, and a completed call has dispatched one press, then one pause,
\* then one release.
C14_ClickSteps ==
    call.op = "BSCmfx.manual_click_element" =>
        /\ IsPrefix(events, ClickSteps)
        /\ pc = "wait_for_visible" => events = <<>>
        /\ (\E i \in 1..Len(events) : events[i].ev \in PointerEvents) =>
              events[1].ev = "wait_for"
        /\ Completed("BSCmfx.manual_click_element") => events = ClickSteps

C14_Witness ==
    /\ Completed("BSCmfx.manual_click_element")
    /\ events = ClickSteps

\* What human_send_keys dispatches for content, on an element holding before.
RECURSIVE Keystrokes(_)
Keystrokes(content) ==
    IF content = <<>> THEN <<>>
    ELSE <<Event("type", Head(content)), Event("pause", "")>> \o Keystrokes(Tail(content))

ClearSteps(before) ==
    IF before # <<>>
    THEN <<Event("click", "3"), Event("pause", ""), Event("press", "Backspace")>>
    ELSE <<>>

SendKeysSteps(content, before) ==
    <<Event("focus", "")>> \o ClearSteps(before) \o Keystrokes(content)

\* The pauses dispatched after the k-th event of the log.
PausesAfter(k) ==
    Cardinality({i \in (k + 1)..Len(events) : events[i].ev = "pause"})

\* C15: human_send_keys focuses the element, clears it (triple click, pause,
\* Backspace) only if it holds a non-empty value, then for each character of
\* content in order submits that character followed by one randomized pause:
\* a completed call has made exactly len(content) submissions, whose
\* characters are content in order, and len(content) typing pauses.
C15_SendKeysSteps ==
    call.op = "BSCmfx.human_send_keys" =>
        /\ IsPrefix(events, SendKeysSteps(params.content, params.before))
        /\ params.before = <<>> =>
              \A i \in 1..Len(events) : events[i].ev \notin {"click", "press"}
        /\ Completed("BSCmfx.human_send_keys") =>
              /\ events = SendKeysSteps(params.content, params.before)
              /\ Len(Typed) = Len(params.content)
              /\ \A i \in 1..Len(Typed) : Typed[i].ch = params.content[i]
              /\ PausesAfter(1 + Len(ClearSteps(params.before))) = Len(params.content)

C15_Witness ==
    /\ Completed("BSCmfx.human_send_keys")
    /\ params.before # <<>>
    /\ Len(params.content) >= 2
    /\ Len(Typed) = Len(params.content)

Lookups == SelectSeq(events, LAMBDA x : x.ev = "lookup")

\* C16: find_element and find_elements make one engine lookup, and exactly
\* one more, with no pause between the two, when retry is set and the first
\* lookup missed.  The error of a repeated find_element that misses reaches
\* the caller; a repeated find_elements that misses returns the empty list.
C16_LookupRetriesOnce ==
    call.op \in {"BSWebDriver.find_element", "BSWebDriver.find_elements"} =>
        /\ Lookups = events
        /\ clock = 0
        /\ pc \in {"find_element_again", "find_elements_again"} =>
              events = <<Lookup(FALSE)>> /\ params.retry
        /\ pc = "done" =>
              /\ Len(events) = (IF params.retry /\ events[1] = Lookup(FALSE) THEN 2 ELSE 1)
              /\ call.op = "BSWebDriver.find_element" =>
                    IF events[Len(events)] = Lookup(FALSE)
                    THEN ret = Raise("NoSuchElementException")
                    ELSE ret.kind = "return" /\ ret.t = "WebElement"
              /\ call.op = "BSWebDriver.find_elements" =>
                    /\ ret.kind = "return" /\ ret.t = "list"
                    /\ events[Len(events)] = Lookup(FALSE) <=> ret.l = <<>>

C16_Witness ==
    /\ Done("BSWebDriver.find_element")
    /\ params.retry
    /\ events = <<Lookup(FALSE), Lookup(FALSE)>>
    /\ ret = Raise("NoSuchElementException")

====
